---- MODULE Spec2Model ----
(***************************************************************************)
(* A model of anarchic-image-hosting-cli (src/src/main.rs): one run of the *)
(* process from the start of main to process exit.  The environment (the   *)
(* configuration file, the command line, the target file) is fixed by      *)
(* Init; the server's behaviour is chosen when the request is sent.        *)
(*                                                                         *)
(* Option<T> is modelled as a sequence: None is <<>>, Some(x) is <<x>>.    *)
(* A line written to a stream is a record [by, fmt, args]: who wrote it,   *)
(* the format string of the source and the formatted arguments.            *)
(***************************************************************************)
EXTENDS Integers, Sequences, FiniteSets, TLC

VARIABLES
    pc,             \* position in main
    configFile,     \* environment: anarchic-image-hosting-cli.json5 on disk
    argv,           \* environment: the command line
    targetFile,     \* environment: the file at args.file_path
    log_level,      \* main: let (log_level, endpoint)
    endpoint,
    logger,         \* process-wide logger: RUST_LOG as env_logger::init read it
    loggerInits,    \* number of calls of init_logger so far
    args,           \* main: let args
    url,            \* main: let url
    file,           \* the handle `file`: "none", "open" or "closed"
    buffer,         \* main: let buffer, once read_to_end has filled it
    form,           \* main: let form
    requests,       \* the requests handed to the network, in order
    inflight,       \* requests sent whose response is not yet complete
    status,         \* main: let status
    response_text,  \* main: let response_text
    stdout,         \* lines written to standard output
    stderr,         \* lines written to standard error
    exit,           \* the process's exit status, once it has exited
    result          \* how main ended: "running", "Ok", "Err_io", "Err_reqwest",
                    \* "panic" or "exit" (std::process::exit inside Cli::parse)

vars == <<pc, configFile, argv, targetFile, log_level, endpoint, logger,
          loggerInits, args, url, file, buffer, form, requests, inflight,
          status, response_text, stdout, stderr, exit, result>>

None == <<>>
Some(x) == <<x>>

-----------------------------------------------------------------------------
(* Bounds and the values the environment is drawn from.                    *)

MaxFileLen == 2

Bytes == {0, 255}

RECURSIVE SeqsUpTo(_, _)
SeqsUpTo(S, n) ==
    IF n = 0 THEN {<<>>}
    ELSE LET shorter == SeqsUpTo(S, n - 1)
         IN  shorter \cup {Append(s, b) : s \in {t \in shorter : Len(t) = n - 1}, b \in S}

FileContents == SeqsUpTo(Bytes, MaxFileLen)

LogLevels == {"error", "info", "debug"}

Endpoints == {"http://a", "http://b"}

NonUtf8Names == {"\\xFF.png"}

Paths == {<<"photo.png">>, <<"dir", "..">>, <<"dir", "\\xFF.png">>}

StatusCodes == {200, 204, 300, 404, 500}

Bodies == {"ok", "server error"}

Option(S) == {None} \cup {Some(x) : x \in S}

ConfigFiles ==
    {[state |-> s, log_level |-> None, endpoint |-> None] :
        s \in {"missing", "unreadable", "unparsable"}}
    \cup [state : {"ok"}, log_level : Option(LogLevels), endpoint : Option(Endpoints)]

CommandLines ==
    {[kind |-> k, file_path |-> <<>>, url |-> None] : k \in {"usage_error", "help"}}
    \cup [kind : {"ok"}, file_path : Paths, url : Option(Endpoints)]

TargetFiles ==
    {[state |-> s, bytes |-> <<>>] : s \in {"absent", "denied", "read_error"}}
    \cup [state : {"ok"}, bytes : FileContents]

-----------------------------------------------------------------------------
(* Streams and logging.                                                    *)

Entry(by, fmt, fmtargs) == [by |-> by, fmt |-> fmt, args |-> fmtargs]

LevelRank(l) ==
    CASE l = "error" -> 1
      [] l = "warn"  -> 2
      [] l = "info"  -> 3
      [] l = "debug" -> 4
      [] l = "trace" -> 5
      [] OTHER       -> 0

\* env_logger filters on the level init_logger put in RUST_LOG
Enabled(lg, level) == lg # None /\ LevelRank(level) <= LevelRank(lg[1])

\* a log::<level>! call: env_logger writes enabled records to standard error
Log(lg, level, fmt, fmtargs) ==
    IF Enabled(lg, level) THEN <<Entry("log", fmt, fmtargs)>> ELSE <<>>

-----------------------------------------------------------------------------
(* Pure functions of main.rs.                                              *)

\* load_config: read_to_string(..).expect(..) panics, a json5 error is Err
load_config(cf) ==
    IF cf.state \in {"missing", "unreadable"}
    THEN [tag |-> "panic", log_level |-> None, endpoint |-> None]
    ELSE IF cf.state = "unparsable"
    THEN [tag |-> "Err", log_level |-> None, endpoint |-> None]
    ELSE [tag |-> "Ok", log_level |-> cf.log_level, endpoint |-> cf.endpoint]

unwrap_or(opt, default) == IF opt = None THEN default ELSE opt[1]

\* Resolve with the precedence reversed: the config's endpoint wins over --url
ResolveConfigFirst(cliUrl, configEndpoint) ==
    unwrap_or(configEndpoint, unwrap_or(cliUrl, "http://localhost:8080")) \o "/upload"

\* let url = args.url.clone().unwrap_or_else(|| endpoint...unwrap_or_else(default)) + "/upload"
Resolve(cliUrl, configEndpoint) ==
    unwrap_or(cliUrl, unwrap_or(configEndpoint, "http://localhost:8080")) \o "/upload"

\* is_success narrowed to the single status 200
IsSuccessOnly200(s) == s = 200

\* StatusCode::is_success
IsSuccess(s) == 200 <= s /\ s < 300

RECURSIVE PathStr(_)
PathStr(p) ==
    IF p = <<>> THEN ""
    ELSE IF Len(p) = 1 THEN p[1]
    ELSE p[1] \o "/" \o PathStr(Tail(p))

\* args.file_path.file_name().and_then(|n| n.to_str()).unwrap_or("unknown_file")
FileName(p) ==
    LET last == IF p = <<>> \/ p[Len(p)] = ".." THEN None ELSE Some(p[Len(p)])
        str  == IF last # None /\ last[1] \in NonUtf8Names THEN None ELSE last
    IN  unwrap_or(str, "unknown_file")

-----------------------------------------------------------------------------
Init ==
    /\ pc = "start"
    /\ configFile \in ConfigFiles
    /\ argv \in CommandLines
    /\ targetFile \in TargetFiles
    /\ log_level = None
    /\ endpoint = None
    /\ logger = None
    /\ loggerInits = 0
    /\ args = None
    /\ url = None
    /\ file = "none"
    /\ buffer = None
    /\ form = None
    /\ requests = <<>>
    /\ inflight = 0
    /\ status = None
    /\ response_text = None
    /\ stdout = <<>>
    /\ stderr = <<>>
    /\ exit = None
    /\ result = "running"

\* load_config panics: the process dies with status 101
LoadConfigPanics ==
    /\ pc = "start"
    /\ load_config(configFile).tag = "panic"
    /\ stderr' = Append(stderr, Entry("panic", "Failed to read config file: {:?}", <<configFile.state>>))
    /\ exit' = Some(101)
    /\ result' = "panic"
    /\ pc' = "exited"
    /\ UNCHANGED <<configFile, argv, targetFile, log_level, endpoint, logger,
                   loggerInits, args, url, file, buffer, form, requests,
                   inflight, status, response_text, stdout>>

\* load_config returns Err: warn and fall back to ("error", None)
LoadConfigErr ==
    /\ pc = "start"
    /\ load_config(configFile).tag = "Err"
    /\ stderr' = Append(stderr, Entry("eprintln", "Warning: Could not load config file: {}",
                                      <<"Unable to parse config file">>))
    /\ log_level' = Some("error")
    /\ endpoint' = None
    /\ pc' = "config_loaded"
    /\ UNCHANGED <<configFile, argv, targetFile, logger, loggerInits, args, url,
                   file, buffer, form, requests, inflight, status,
                   response_text, stdout, exit, result>>

\* load_config returns Ok(config)
LoadConfigOk ==
    /\ pc = "start"
    /\ load_config(configFile).tag = "Ok"
    /\ log_level' = Some(unwrap_or(load_config(configFile).log_level, "info"))
    /\ endpoint' = load_config(configFile).endpoint
    /\ pc' = "config_loaded"
    /\ UNCHANGED <<configFile, argv, targetFile, logger, loggerInits, args, url,
                   file, buffer, form, requests, inflight, status,
                   response_text, stdout, stderr, exit, result>>

\* init_logger(&log_level)
InitLogger ==
    /\ pc = "config_loaded"
    /\ logger' = log_level
    /\ loggerInits' = loggerInits + 1
    /\ pc' = "logger_ready"
    /\ UNCHANGED <<configFile, argv, targetFile, log_level, endpoint, args, url,
                   file, buffer, form, requests, inflight, status,
                   response_text, stdout, stderr, exit, result>>

\* Cli::parse() on a command line clap rejects: usage on stderr, exit(2)
ParseArgsUsageError ==
    /\ pc = "logger_ready"
    /\ argv.kind = "usage_error"
    /\ stderr' = Append(stderr, Entry("clap", "error: {}", <<"usage">>))
    /\ exit' = Some(2)
    /\ result' = "exit"
    /\ pc' = "exited"
    /\ UNCHANGED <<configFile, argv, targetFile, log_level, endpoint, logger,
                   loggerInits, args, url, file, buffer, form, requests,
                   inflight, status, response_text, stdout>>

\* Cli::parse() on --help or --version: text on stdout, exit(0)
ParseArgsHelp ==
    /\ pc = "logger_ready"
    /\ argv.kind = "help"
    /\ stdout' = Append(stdout, Entry("clap", "{}", <<"help">>))
    /\ exit' = Some(0)
    /\ result' = "exit"
    /\ pc' = "exited"
    /\ UNCHANGED <<configFile, argv, targetFile, log_level, endpoint, logger,
                   loggerInits, args, url, file, buffer, form, requests,
                   inflight, status, response_text, stderr>>

\* Cli::parse() succeeds
ParseArgsOk ==
    /\ pc = "logger_ready"
    /\ argv.kind = "ok"
    /\ args' = Some([file_path |-> argv.file_path, url |-> argv.url])
    /\ stderr' = stderr \o Log(logger, "debug", "Parsed arguments: {:?}",
                               <<PathStr(argv.file_path)>> \o argv.url)
    /\ pc' = "args_parsed"
    /\ UNCHANGED <<configFile, argv, targetFile, log_level, endpoint, logger,
                   loggerInits, url, file, buffer, form, requests, inflight,
                   status, response_text, stdout, exit, result>>

\* Determine the URL to use
ResolveUrl ==
    /\ pc = "args_parsed"
    /\ url' = Some(Resolve(args[1].url, endpoint))
    /\ stderr' = stderr \o Log(logger, "debug", "Using endpoint URL: {}",
                               <<Resolve(args[1].url, endpoint)>>)
    /\ pc' = "url_resolved"
    /\ UNCHANGED <<configFile, argv, targetFile, log_level, endpoint, logger,
                   loggerInits, args, file, buffer, form, requests, inflight,
                   status, response_text, stdout, exit, result>>

\* ReturnErr with the handle leaked instead of dropped
ReturnErrLeak(kind, e) ==
    /\ file' = file
    /\ stderr' = Append(stderr, Entry("main", "Error: {:?}", <<e>>))
    /\ exit' = Some(1)
    /\ result' = kind
    /\ pc' = "exited"

\* main returns Err(e): its locals are dropped (an open handle is closed),
\* the runtime prints the error and the process exits with status 1
ReturnErr(kind, e) ==
    /\ file' = IF file = "open" THEN "closed" ELSE file
    /\ stderr' = Append(stderr, Entry("main", "Error: {:?}", <<e>>))
    /\ exit' = Some(1)
    /\ result' = kind
    /\ pc' = "exited"

\* File::open(&args.file_path).await
OpenSucceeds(f) == f.state \notin {"absent", "denied"}

\* read_to_end with its error ignored
ReadSucceedsAlways(f) == TRUE

\* file.read_to_end(&mut buffer).await
ReadSucceeds(f) == f.state # "read_error"

\* File::open(..).await? fails
OpenFileFails ==
    /\ pc = "url_resolved"
    /\ ~OpenSucceeds(targetFile)
    /\ ReturnErr("Err_io", targetFile.state)
    /\ UNCHANGED <<configFile, argv, targetFile, log_level, endpoint, logger,
                   loggerInits, args, url, buffer, form, requests, inflight,
                   status, response_text, stdout>>

\* File::open(..).await? succeeds
OpenFileOk ==
    /\ pc = "url_resolved"
    /\ OpenSucceeds(targetFile)
    /\ file' = "open"
    /\ pc' = "file_opened"
    /\ UNCHANGED <<configFile, argv, targetFile, log_level, endpoint, logger,
                   loggerInits, args, url, buffer, form, requests, inflight,
                   status, response_text, stdout, stderr, exit, result>>

\* file.read_to_end(&mut buffer).await? fails
ReadFileFails ==
    /\ pc = "file_opened"
    /\ ~ReadSucceeds(targetFile)
    /\ ReturnErr("Err_io", targetFile.state)
    /\ UNCHANGED <<configFile, argv, targetFile, log_level, endpoint, logger,
                   loggerInits, args, url, buffer, form, requests, inflight,
                   status, response_text, stdout>>

\* file.read_to_end(&mut buffer).await? succeeds
ReadFileOk ==
    /\ pc = "file_opened"
    /\ ReadSucceeds(targetFile)
    /\ buffer' = Some(targetFile.bytes)
    /\ stderr' = stderr \o Log(logger, "debug", "Read {} bytes from file: {:?}",
                               <<ToString(Len(targetFile.bytes)), PathStr(args[1].file_path)>>)
    /\ pc' = "file_read"
    /\ UNCHANGED <<configFile, argv, targetFile, log_level, endpoint, logger,
                   loggerInits, args, url, file, form, requests, inflight,
                   status, response_text, stdout, exit, result>>

\* Get the file name and create the multipart form; Part::bytes(buffer) moves
\* the buffer into the form
BuildForm ==
    /\ pc = "file_read"
    /\ form' = Some([field |-> "file", file_name |-> FileName(args[1].file_path),
                     bytes |-> buffer[1]])
    /\ buffer' = None
    /\ stderr' = stderr
                 \o Log(logger, "debug", "Using file name: {}", <<FileName(args[1].file_path)>>)
                 \o Log(logger, "debug", "Created multipart form with file part: {}",
                        <<FileName(args[1].file_path)>>)
    /\ pc' = "form_built"
    /\ UNCHANGED <<configFile, argv, targetFile, log_level, endpoint, logger,
                   loggerInits, args, url, file, requests, inflight, status,
                   response_text, stdout, exit, result>>

\* Post re-sending the request once
PostTwice(reqs, u, f) ==
    reqs \o <<[method |-> "POST", url |-> u, form |-> f],
              [method |-> "POST", url |-> u, form |-> f]>>

\* client.post(&url).multipart(form).send()
Post(reqs, u, f) == Append(reqs, [method |-> "POST", url |-> u, form |-> f])

\* SendRequest posting to a target derived again from the config alone
SendRequestRederived ==
    /\ pc = "form_built"
    /\ stderr' = stderr \o Log(logger, "debug", "Sending request to URL: {}", <<url[1]>>)
    /\ requests' = Post(requests, Resolve(None, endpoint), form[1])
    /\ inflight' = inflight + (Len(requests') - Len(requests))
    /\ form' = None
    /\ pc' = "sending"
    /\ UNCHANGED <<configFile, argv, targetFile, log_level, endpoint, logger,
                   loggerInits, args, url, file, buffer, status, response_text,
                   stdout, exit, result>>

\* the request goes out; .multipart(form) moves the form into it
SendRequest ==
    /\ pc = "form_built"
    /\ stderr' = stderr \o Log(logger, "debug", "Sending request to URL: {}", <<url[1]>>)
    /\ requests' = Post(requests, url[1], form[1])
    /\ inflight' = inflight + (Len(requests') - Len(requests))
    /\ form' = None
    /\ pc' = "sending"
    /\ UNCHANGED <<configFile, argv, targetFile, log_level, endpoint, logger,
                   loggerInits, args, url, file, buffer, status, response_text,
                   stdout, exit, result>>

\* send().await? fails: connection, DNS or transport error
SendFails ==
    /\ pc = "sending"
    /\ inflight' = 0
    /\ ReturnErr("Err_reqwest", "send")
    /\ UNCHANGED <<configFile, argv, targetFile, log_level, endpoint, logger,
                   loggerInits, args, url, buffer, form, requests, status,
                   response_text, stdout>>

\* ReceiveHead reporting a failure status before the body is in
ReceiveHeadEager ==
    /\ pc = "sending"
    /\ \E s \in StatusCodes :
          /\ status' = Some(s)
          /\ stderr' = IF IsSuccess(s) THEN stderr
                       ELSE Append(stderr, Entry("eprintln", "Failed to upload the file. Status: {}",
                                                 <<ToString(s)>>))
    /\ pc' = "headers"
    /\ UNCHANGED <<configFile, argv, targetFile, log_level, endpoint, logger,
                   loggerInits, args, url, file, buffer, form, requests,
                   inflight, response_text, stdout, exit, result>>

\* send().await? yields the response head; let status = response.status()
ReceiveHead ==
    /\ pc = "sending"
    /\ \E s \in StatusCodes : status' = Some(s)
    /\ pc' = "headers"
    /\ UNCHANGED <<configFile, argv, targetFile, log_level, endpoint, logger,
                   loggerInits, args, url, file, buffer, form, requests,
                   inflight, response_text, stdout, stderr, exit, result>>

\* response.text().await? fails while the body is being received
BodyFails ==
    /\ pc = "headers"
    /\ inflight' = 0
    /\ ReturnErr("Err_reqwest", "body")
    /\ UNCHANGED <<configFile, argv, targetFile, log_level, endpoint, logger,
                   loggerInits, args, url, buffer, form, requests, status,
                   response_text, stdout>>

\* response.text().await? yields the whole body
ReceiveBody ==
    /\ pc = "headers"
    /\ \E b \in Bodies : response_text' = Some(b)
    /\ inflight' = 0
    /\ pc' = "body_received"
    /\ UNCHANGED <<configFile, argv, targetFile, log_level, endpoint, logger,
                   loggerInits, args, url, file, buffer, form, requests,
                   status, stdout, stderr, exit, result>>

\* if status.is_success(): println! the body and log::info!
ReportSuccess ==
    /\ pc = "body_received"
    /\ IsSuccess(status[1])
    /\ stdout' = Append(stdout, Entry("println", "{}", response_text))
    /\ stderr' = stderr \o Log(logger, "info", "File uploaded successfully: {}", response_text)
    /\ pc' = "reported"
    /\ UNCHANGED <<configFile, argv, targetFile, log_level, endpoint, logger,
                   loggerInits, args, url, file, buffer, form, requests,
                   inflight, status, response_text, exit, result>>

\* else: eprintln! the status and the body and log::error!
ReportFailure ==
    /\ pc = "body_received"
    /\ ~IsSuccess(status[1])
    /\ stderr' = stderr
                 \o <<Entry("eprintln", "Failed to upload the file. Status: {}",
                            <<ToString(status[1])>>),
                      Entry("eprintln", "Response: {}", response_text)>>
                 \o Log(logger, "error", "Failed to upload file. Status: {}. Response: {}",
                        <<ToString(status[1])>> \o response_text)
    /\ pc' = "reported"
    /\ UNCHANGED <<configFile, argv, targetFile, log_level, endpoint, logger,
                   loggerInits, args, url, file, buffer, form, requests,
                   inflight, status, response_text, stdout, exit, result>>

\* Ok(()): main's locals are dropped, `file` among them, and the process
\* exits with status 0
ReturnOk ==
    /\ pc = "reported"
    /\ file' = "closed"
    /\ exit' = Some(0)
    /\ result' = "Ok"
    /\ pc' = "exited"
    /\ UNCHANGED <<configFile, argv, targetFile, log_level, endpoint, logger,
                   loggerInits, args, url, buffer, form, requests, inflight,
                   status, response_text, stdout, stderr>>

Next ==
    \/ LoadConfigPanics
    \/ LoadConfigErr
    \/ LoadConfigOk
    \/ InitLogger
    \/ ParseArgsUsageError
    \/ ParseArgsHelp
    \/ ParseArgsOk
    \/ ResolveUrl
    \/ OpenFileFails
    \/ OpenFileOk
    \/ ReadFileFails
    \/ ReadFileOk
    \/ BuildForm
    \/ SendRequest
    \/ SendFails
    \/ ReceiveHead
    \/ BodyFails
    \/ ReceiveBody
    \/ ReportSuccess
    \/ ReportFailure
    \/ ReturnOk

Spec == Init /\ [][Next]_vars

-----------------------------------------------------------------------------
(* The claims.                                                             *)

\* the default endpoint of the specification, section 4.2
DefaultBase == "http://localhost:8080"

\* what the command line and the configuration file say the target must be
ExpectedTarget ==
    (IF argv.url # None THEN argv.url[1]
     ELSE IF configFile.state = "ok" /\ configFile.endpoint # None
          THEN configFile.endpoint[1]
          ELSE DefaultBase) \o "/upload"

\* the lines of a stream that report the upload's response
ReportFormats ==
    {"File uploaded successfully: {}", "Failed to upload the file. Status: {}",
     "Response: {}", "Failed to upload file. Status: {}. Response: {}"}

AboutResponse(e) == e.fmt \in ReportFormats

IsPrintln(e) == e.by = "println"

Reported == pc = "reported" \/ (pc = "exited" /\ result = "Ok")

\* C1: every request goes to the CLI --url if given, else the config's
\* endpoint if given, else http://localhost:8080, with "/upload" appended and
\* nothing else changed; with both given, the CLI value wins.
C1_EndpointResolution ==
    /\ url # None => url[1] = ExpectedTarget
    /\ \A i \in 1..Len(requests) : requests[i].url = ExpectedTarget
    /\ (requests # <<>> /\ argv.url = Some("http://b")
            /\ configFile.endpoint = Some("http://a"))
        => requests[1].url = "http://b/upload"
    /\ (requests # <<>> /\ argv.url = None /\ configFile.endpoint = Some("http://a"))
        => requests[1].url = "http://a/upload"
    /\ (requests # <<>> /\ argv.url = None /\ configFile.endpoint = None)
        => requests[1].url = "http://localhost:8080/upload"

C1_Witness ==
    /\ requests # <<>>
    /\ argv.url = Some("http://b")
    /\ configFile.endpoint = Some("http://a")

\* C2: whenever the configuration file is missing, unreadable or unparsable,
\* the run gets past the config step: it does not abort there, it has warned
\* on the error stream, and it continues with log_level "error" and no
\* endpoint.
C2_ConfigUnavailableNeverFatal ==
    (configFile.state # "ok" /\ pc # "start") =>
        /\ result # "panic"
        /\ \E i \in 1..Len(stderr) :
              stderr[i].fmt = "Warning: Could not load config file: {}"
        /\ log_level = Some("error")
        /\ endpoint = None

\* C3: when the target file cannot be opened or cannot be read to the end, no
\* request is ever sent and the run ends as a fatal I/O failure; a request
\* that is sent carries the whole content of a file that was read
\* successfully.
C3_NoNetworkAfterIOFailure ==
    /\ targetFile.state # "ok" => requests = <<>> /\ inflight = 0
    /\ result = "Err_io" => requests = <<>> /\ exit # None /\ exit # Some(0)
    /\ (targetFile.state # "ok" /\ pc = "exited" /\ result \notin {"panic", "exit"})
        => result = "Err_io"
    /\ \A i \in 1..Len(requests) :
          targetFile.state = "ok" /\ requests[i].form.bytes = targetFile.bytes

C3_Witness ==
    /\ pc = "exited"
    /\ result = "Err_io"
    /\ targetFile.state = "read_error"
    /\ file = "closed"

\* C4: the exit status is non-zero exactly when the run ended in a fatal I/O
\* failure or a fatal network failure, and zero in every other run.
C4_ExitStatus ==
    pc = "exited" => ((exit # Some(0)) <=> result \in {"Err_io", "Err_reqwest"})

\* C5 as claimed: a 2xx response puts the body on standard output and nothing
\* about the response on the error stream; any other response puts the status
\* and the body on the error stream and nothing on standard output.
C5_AsClaimed ==
    Reported =>
        IF status[1] \in 200..299
        THEN /\ stdout = <<Entry("println", "{}", response_text)>>
             /\ SelectSeq(stderr, AboutResponse) = <<>>
        ELSE /\ stdout = <<>>
             /\ \E i \in 1..Len(stderr) : stderr[i].args = <<ToString(status[1])>>
             /\ \E i \in 1..Len(stderr) : stderr[i].args = response_text

\* C5: a 2xx response puts the body on standard output, once, and the only
\* line about the response on the error stream is the informational log
\* record, present exactly when the log level enables info; any other
\* response puts the status line and the body line on the error stream, once
\* each, followed by the error log record when the log level enables error,
\* and nothing on standard output.
C5_ResponseReporting ==
    Reported =>
        IF status[1] \in 200..299
        THEN /\ stdout = <<Entry("println", "{}", response_text)>>
             /\ SelectSeq(stderr, AboutResponse) =
                   IF logger[1] \in {"info", "debug", "trace"}
                   THEN <<Entry("log", "File uploaded successfully: {}", response_text)>>
                   ELSE <<>>
        ELSE /\ stdout = <<>>
             /\ SelectSeq(stderr, AboutResponse) =
                   <<Entry("eprintln", "Failed to upload the file. Status: {}",
                           <<ToString(status[1])>>),
                     Entry("eprintln", "Response: {}", response_text)>>
                   \o (IF logger[1] \in {"error", "warn", "info", "debug", "trace"}
                       THEN <<Entry("log", "Failed to upload file. Status: {}. Response: {}",
                                    <<ToString(status[1])>> \o response_text)>>
                       ELSE <<>>)

C5_Witness ==
    /\ pc = "reported"
    /\ status = Some(200)
    /\ logger = Some("info")
    /\ Len(stderr) > 0

\* C6: a run sends at most one POST, whatever its outcome, and never has more
\* than one request in flight.
C6_AtMostOneRequest ==
    /\ Len(requests) <= 1
    /\ inflight <= 1
    /\ inflight <= Len(requests)
    /\ \A i \in 1..Len(requests) : requests[i].method = "POST"

C6_Witness ==
    /\ pc = "exited"
    /\ result = "Err_reqwest"
    /\ status # None
    /\ Len(requests) = 1

\* C7: once past logger initialisation the logger has been initialised exactly
\* once, with the config's log_level if the file loaded with that key, "info"
\* if it loaded without it, and "error" if the file is absent or unreadable;
\* nothing is parsed, read or sent before that.
C7_LogLevel ==
    /\ pc \notin {"start", "config_loaded"} =>
          /\ loggerInits = 1
          /\ logger = Some(IF configFile.state # "ok" THEN "error"
                           ELSE IF configFile.log_level = None THEN "info"
                           ELSE configFile.log_level[1])
    /\ (args # None \/ file # "none" \/ requests # <<>>) => loggerInits = 1

\* C8: the target URL is set before the file is opened and before any
\* request, every request goes to exactly that value, and once set it never
\* changes.
C8_TargetFixed ==
    /\ [](/\ (file # "none" \/ buffer # None \/ form # None \/ requests # <<>>) => url # None
          /\ \A i \in 1..Len(requests) : requests[i].url = url[1])
    /\ [][url # None => url' = url]_vars

C8_Witness ==
    /\ requests # <<>>
    /\ args[1].url # None
    /\ endpoint # None
    /\ args[1].url # endpoint

\* C9 as claimed: the handle is closed once the bytes have been read; it is
\* not open while the request is in flight or the response is reported.
C9_AsClaimed ==
    pc \in {"file_read", "form_built", "sending", "headers", "body_received",
            "reported", "exited"} => file # "open"

\* C9: the handle is closed on every exit path, but only when main returns:
\* it is open from the successful open until then, the request's flight and
\* the report included.
C9_HandleScope ==
    /\ pc = "exited" => file # "open"
    /\ pc \in {"file_opened", "file_read", "form_built", "sending", "headers",
               "body_received", "reported"} => file = "open"
    /\ inflight > 0 => file = "open"

C9_Witness ==
    /\ pc = "headers"
    /\ inflight = 1
    /\ file = "open"

\* C10: the response is reported only once both status and body are in; a run
\* whose send failed, or whose body failed to arrive after the status, ends
\* as a fatal network failure with nothing on standard output and no report.
C10_ReportAfterCompleteResponse ==
    /\ (SelectSeq(stderr, AboutResponse) # <<>> \/ SelectSeq(stdout, IsPrintln) # <<>>)
        => status # None /\ response_text # None /\ inflight = 0
    /\ (pc = "exited" /\ requests # <<>> /\ response_text = None) =>
          /\ result = "Err_reqwest"
          /\ exit # None /\ exit # Some(0)
          /\ stdout = <<>>
          /\ SelectSeq(stderr, AboutResponse) = <<>>

C10_Witness ==
    /\ pc = "exited"
    /\ result = "Err_reqwest"
    /\ status = Some(500)
    /\ response_text = None
====
